---- MODULE Spec2Model ----
(***************************************************************************)
(* Model of app.py: the point store (points, used_names, removed_names),   *)
(* the label allocator generate_point_name, the grouping function          *)
(* find_optimal_grouping and the Dash callback update_graph_and_list.      *)
(*                                                                         *)
(* Coordinates are fixed-point numbers: the integer n stands for n/Scale,  *)
(* so the callback's tolerance of 1 is the integer 1 * Scale.  The         *)
(* grouping function itself is modelled on plain integers.                 *)
(*                                                                         *)
(* A point handed to find_optimal_grouping is the Python tuple             *)
(* (x, y, name): <<x, y, name>> here, so p[0] is p[1] and p[1] is p[2].    *)
(***************************************************************************)
EXTENDS Integers, Sequences, FiniteSets, Bags, TLC

\* ---------------------------------------------------------------- bounds
MaxPoints == 3      \* the store never holds more points than this
Scale     == 3      \* fixed-point resolution of the store's coordinates
MaxLen    == 4      \* longest input list given to the grouper

XValues == {0, 1}       \* x coordinates tried
YValues == {0, 1, 3}    \* y coordinates the store is given
InputYValues == 0..3    \* y coordinates of the grouper's input points
None == "None"
Tolerances == (-1)..4     \* tolerances the grouper is called with

\* ------------------------------------------------------- program constants
Alphabet == <<"a", "b", "c", "d", "e", "f", "g", "h", "i", "j", "k", "l", "m",
              "n", "o", "p", "q", "r", "s", "t", "u", "v", "w", "x", "y", "z">>
tolerance == 1

VARIABLES points, used_names, removed_names, points_list, err,
          triggered_id, store_was_empty,
          in_points, in_tolerance, out_groups, out_sorted, out_regrouped,
          raised, pc

store_vars == <<points, used_names, removed_names, points_list, err,
                triggered_id, store_was_empty>>
call_vars  == <<in_points, in_tolerance, out_groups, out_sorted, out_regrouped,
                raised, pc>>
vars == <<points, used_names, removed_names, points_list, err,
          triggered_id, store_was_empty,
          in_points, in_tolerance, out_groups, out_sorted, out_regrouped,
          raised, pc>>

\* ------------------------------------------------------------ list helpers
\* list.remove(p): drops the first element equal to p
RECURSIVE list_remove(_, _)
list_remove(s, p) ==
    IF s = <<>> THEN <<>>
    ELSE IF Head(s) = p THEN Tail(s)
    ELSE <<Head(s)>> \o list_remove(Tail(s), p)

RECURSIVE MaxOf(_)
MaxOf(s) ==
    IF Len(s) = 1 THEN s[1]
    ELSE LET m == MaxOf(Tail(s)) IN IF s[1] >= m THEN s[1] ELSE m

RECURSIVE MinOf(_)
MinOf(s) ==
    IF Len(s) = 1 THEN s[1]
    ELSE LET m == MinOf(Tail(s)) IN IF s[1] <= m THEN s[1] ELSE m

y_values(group) == [i \in 1..Len(group) |-> group[i][2]]

\* max_y_distance(group)
max_y_distance(group) ==
    IF group = <<>> THEN 0
    ELSE MaxOf(y_values(group)) - MinOf(y_values(group))

\* mutant: the list is walked in input order, the sort left out
sorted_by_neg_y_unsorted(s) == s

\* sorted(points, key=lambda p: -p[1]): stable, y descending
RECURSIVE sorted_by_neg_y(_)
sorted_by_neg_y(s) ==
    IF s = <<>> THEN <<>>
    ELSE LET n    == Len(s)
             p    == s[n]
             done == sorted_by_neg_y(SubSeq(s, 1, n - 1))
             k    == Cardinality({i \in 1..Len(done) : done[i][2] >= p[2]})
         IN SubSeq(done, 1, k) \o <<p>> \o SubSeq(done, k + 1, Len(done))

\* mutant: the group is left in the order the grouping produced
sorted_by_x_unsorted(s) == s

\* sorted(group, key=lambda p: p[0]): stable, x ascending
RECURSIVE sorted_by_x(_)
sorted_by_x(s) ==
    IF s = <<>> THEN <<>>
    ELSE LET n    == Len(s)
             p    == s[n]
             done == sorted_by_x(SubSeq(s, 1, n - 1))
             k    == Cardinality({i \in 1..Len(done) : done[i][1] <= p[1]})
         IN SubSeq(done, 1, k) \o <<p>> \o SubSeq(done, k + 1, Len(done))

\* ---------------------------------------------------- find_optimal_grouping
\* mutant: the tolerance taken as an inclusive bound
within_tolerance_inclusive(new_max_distance, tol) == new_max_distance <= tol

\* line 115: the incoming point joins the current group
within_tolerance(new_max_distance, tol) == new_max_distance < tol

\* mutant: the contested point goes to the side whose span it enlarges
moves_to_new_group_reversed(temp_group, temp_remaining_group, p) ==
    max_y_distance(temp_group) > max_y_distance(temp_remaining_group \o <<p>>)

\* line 126: the contested point p goes to the new group
moves_to_new_group(temp_group, temp_remaining_group, p) ==
    max_y_distance(temp_group) < max_y_distance(temp_remaining_group \o <<p>>)

\* lines 122-128: the loop over current_group, from its i-th element on;
\* yields <<new_group, remaining_group>>
RECURSIVE split_loop(_, _, _, _)
split_loop(current_group, i, new_group, remaining_group) ==
    IF i > Len(current_group) THEN <<new_group, remaining_group>>
    ELSE LET p                    == current_group[i]
             temp_group           == new_group \o <<p>>
             temp_remaining_group == list_remove(remaining_group, p)
         IN IF moves_to_new_group(temp_group, temp_remaining_group, p)
            THEN split_loop(current_group, i + 1,
                            Append(new_group, p), list_remove(remaining_group, p))
            ELSE split_loop(current_group, i + 1, new_group, remaining_group)

\* lines 106-131: the loop over the sorted points, from the i-th on;
\* yields <<groups, current_group>>
RECURSIVE group_loop(_, _, _, _, _)
group_loop(pts, tol, i, groups, current_group) ==
    IF i > Len(pts) THEN <<groups, current_group>>
    ELSE LET point == pts[i] IN
         IF current_group = <<>>
         THEN group_loop(pts, tol, i + 1, groups, <<point>>)
         ELSE LET new_max_distance == max_y_distance(current_group \o <<point>>) IN
              IF within_tolerance(new_max_distance, tol)
              THEN group_loop(pts, tol, i + 1, groups, Append(current_group, point))
              ELSE LET split == split_loop(current_group, 1, <<point>>, current_group)
                   IN group_loop(pts, tol, i + 1, Append(groups, split[2]), split[1])

\* mutant: the group in progress at the end of the walk is not appended
find_optimal_grouping_unflushed(pts, tol) ==
    group_loop(sorted_by_neg_y(pts), tol, 1, <<>>, <<>>)[1]

\* lines 101-136
find_optimal_grouping(pts, tol) ==
    LET r == group_loop(sorted_by_neg_y(pts), tol, 1, <<>>, <<>>)
    IN IF r[2] # <<>> THEN Append(r[1], r[2]) ELSE r[1]

\* line 177: every group sorted by x
sort_each_group(grouped_points) ==
    [g \in 1..Len(grouped_points) |-> sorted_by_x(grouped_points[g])]

\* line 180: the groups concatenated
RECURSIVE flatten(_)
flatten(grouped_points) ==
    IF grouped_points = <<>> THEN <<>>
    ELSE Head(grouped_points) \o flatten(Tail(grouped_points))

\* ------------------------------------------------------ generate_point_name
\* line 69: f'{char}{i}'
suffixed_name(char, i) == char \o ToString(i)

\* lines 60-64: the first single letter not in used, or None
RECURSIVE first_free_letter(_, _)
first_free_letter(used, c) ==
    IF c > Len(Alphabet) THEN None
    ELSE IF Alphabet[c] \notin used THEN Alphabet[c]
    ELSE first_free_letter(used, c + 1)

\* lines 66-73: the first letter+counter name not in used, counters from i on
RECURSIVE first_free_suffixed(_, _, _)
first_free_suffixed(used, i, c) ==
    IF c > Len(Alphabet) THEN first_free_suffixed(used, i + 1, 1)
    ELSE IF suffixed_name(Alphabet[c], i) \notin used THEN suffixed_name(Alphabet[c], i)
    ELSE first_free_suffixed(used, i, c + 1)

\* lines 57-58: a freed name is handed out again as it is
recycled(used, removed) ==
    [name |-> Head(removed), used_names |-> used, removed_names |-> Tail(removed)]

\* generate_point_name(): the name returned and the globals it leaves behind
generate_point_name(used, removed) ==
    IF removed # <<>> THEN recycled(used, removed)
    ELSE LET letter == first_free_letter(used, 1)
             name   == IF letter # None THEN letter
                       ELSE first_free_suffixed(used, 1, 1)
         IN [name |-> name, used_names |-> used \cup {name}, removed_names |-> removed]

\* ---------------------------------------------------- update_graph_and_list
\* line 159: f'{name} ({x:.2f}, {y:.2f})', kept as its whitespace-separated words
format_name(name, x, y) == <<name, x, y>>

\* line 165: removed_name.split()[0]
name_without_coordinates(removed_name) == removed_name[1]

\* line 170: list(zip(points['x'], points['y'], points['names']))
point_data(pts) == [i \in 1..Len(pts.x) |-> <<pts.x[i], pts.y[i], pts.names[i]>>]

\* lines 170-177: the grouping the callback displays
grouped_points(pts) ==
    sort_each_group(find_optimal_grouping(point_data(pts), tolerance * Scale))

Pop(s) == SubSeq(s, 1, Len(s) - 1)

Init ==
    /\ points = [x |-> <<>>, y |-> <<>>, names |-> <<>>]
    /\ used_names = {}
    /\ removed_names = <<>>
    /\ points_list = <<>>
    /\ err = "none"
    /\ triggered_id = ""
    /\ store_was_empty = TRUE
    /\ in_points = <<>>
    /\ in_tolerance = 0
    /\ out_groups = <<>>
    /\ out_sorted = <<>>
    /\ out_regrouped = <<>>
    /\ raised = "none"
    /\ pc = "idle"

\* lines 151-159 and 169-190: 'Add Point' clicked.  When a coordinate field is
\* empty (missing) x_coord and y_coord are the two random draws of lines 153-154,
\* otherwise they are the values typed in.
AddPoint ==
    /\ Len(points.x) < MaxPoints
    /\ \E missing \in BOOLEAN, x_coord \in XValues, y_coord \in YValues :
         LET gen     == generate_point_name(used_names, removed_names)
             pts     == [x     |-> Append(points.x, x_coord),
                         y     |-> Append(points.y, y_coord),
                         names |-> Append(points.names,
                                          format_name(gen.name, x_coord, y_coord))]
         IN /\ points' = pts
            /\ used_names' = gen.used_names
            /\ removed_names' = gen.removed_names
            /\ points_list' = grouped_points(pts)
            /\ err' = "none"
    /\ triggered_id' = "add-point-button"
    /\ store_was_empty' = (points.x = <<>>)
    /\ UNCHANGED call_vars

\* mutant: the emptiness test of line 161 left out
remove_branch_taken_always(pts) == TRUE

\* line 161: the truth value of points['x']
remove_branch_taken(pts) == pts.x # <<>>

\* lines 161-167: what 'Remove Point' does to the globals, and how it ends.
\* list.pop() of an empty list raises IndexError before anything is changed;
\* used_names.remove(name) raises KeyError after the three pops.
remove_point(pts, used, removed) ==
    IF ~remove_branch_taken(pts)
    THEN [points |-> pts, used_names |-> used, removed_names |-> removed, err |-> "none"]
    ELSE IF pts.x = <<>>
    THEN [points |-> pts, used_names |-> used, removed_names |-> removed,
          err |-> "IndexError"]
    ELSE LET removed_name == pts.names[Len(pts.names)]
             name         == name_without_coordinates(removed_name)
             popped       == [x |-> Pop(pts.x), y |-> Pop(pts.y), names |-> Pop(pts.names)]
         IN IF name \notin used
            THEN [points |-> popped, used_names |-> used, removed_names |-> removed,
                  err |-> "KeyError"]
            ELSE [points |-> popped, used_names |-> used \ {name},
                  removed_names |-> Append(removed, name), err |-> "none"]

\* lines 161-190: 'Remove Point' clicked; a callback that raised returns nothing,
\* so the displayed list stays as it was
RemovePoint ==
    /\ LET r == remove_point(points, used_names, removed_names)
       IN /\ points' = r.points
          /\ used_names' = r.used_names
          /\ removed_names' = r.removed_names
          /\ err' = r.err
          /\ points_list' = IF r.err = "none" THEN grouped_points(r.points)
                            ELSE points_list
    /\ triggered_id' = "remove-point-button"
    /\ store_was_empty' = (points.x = <<>>)
    /\ UNCHANGED call_vars

\* lines 148-149 and 169-190: the callback fires with neither button as its
\* trigger (page load): both branches of lines 151-167 are skipped and the list
\* is computed anew from the store as it is
PageLoad ==
    /\ points_list' = grouped_points(points)
    /\ err' = "none"
    /\ triggered_id' = ""
    /\ store_was_empty' = (points.x = <<>>)
    /\ UNCHANGED <<points, used_names, removed_names>>
    /\ UNCHANGED call_vars

Next == AddPoint \/ RemovePoint \/ PageLoad

Spec == Init /\ [][Next]_vars

\* ------------------------------------------- find_optimal_grouping on its own
\* the lists of n points with distinct labels
PointLists(n) ==
    {[i \in 1..n |-> <<c[i][1], c[i][2], Alphabet[i]>>] :
        c \in [1..n -> XValues \X InputYValues]}

Inputs == UNION {PointLists(n) : n \in 0..MaxLen}

GrouperInit ==
    /\ points = [x |-> <<>>, y |-> <<>>, names |-> <<>>]
    /\ used_names = {}
    /\ removed_names = <<>>
    /\ points_list = <<>>
    /\ err = "none"
    /\ triggered_id = ""
    /\ store_was_empty = TRUE
    /\ in_points \in Inputs
    /\ in_tolerance \in Tolerances
    /\ out_groups = <<>>
    /\ out_sorted = <<>>
    /\ out_regrouped = <<>>
    /\ raised = "none"
    /\ pc = "start"

\* lines 101-136: the call returns its groups; the function has no raise
Group ==
    /\ pc = "start"
    /\ out_groups' = find_optimal_grouping(in_points, in_tolerance)
    /\ raised' = "none"
    /\ pc' = "grouped"
    /\ UNCHANGED <<in_points, in_tolerance, out_sorted, out_regrouped>>
    /\ UNCHANGED store_vars

\* line 177
SortGroups ==
    /\ pc = "grouped"
    /\ out_sorted' = sort_each_group(out_groups)
    /\ pc' = "sorted"
    /\ UNCHANGED <<in_points, in_tolerance, out_groups, out_regrouped, raised>>
    /\ UNCHANGED store_vars

\* lines 180 and 101-136: the displayed order grouped again
Regroup ==
    /\ pc = "sorted"
    /\ out_regrouped' = find_optimal_grouping(flatten(out_sorted), in_tolerance)
    /\ pc' = "regrouped"
    /\ UNCHANGED <<in_points, in_tolerance, out_groups, out_sorted, raised>>
    /\ UNCHANGED store_vars

GrouperNext == Group \/ SortGroups \/ Regroup

GrouperSpec == GrouperInit /\ [][GrouperNext]_vars

\* ------------------------------------------------------------------ claims
BagOf(s) ==
    [e \in {s[i] : i \in 1..Len(s)} |-> Cardinality({i \in 1..Len(s) : s[i] = e})]

\* a group [point, moved...] whose first point lies below a later one: the
\* overflow repair moved a point of the old group into it
BuiltByRepair(group) ==
    \E i \in 2..Len(group) : group[1][2] < group[i][2]

Returned == pc \in {"grouped", "sorted", "regrouped"}

Labels == [i \in 1..Len(points.names) |-> name_without_coordinates(points.names[i])]

\* C1: the groups returned by find_optimal_grouping, concatenated, hold exactly
\* the input points as a multiset, on the first call and on the second
C1_PartitionComplete ==
    /\ Returned => BagOf(flatten(out_groups)) = BagOf(in_points)
    /\ pc = "regrouped" => BagOf(flatten(out_regrouped)) = BagOf(in_points)

\* both calls returned a group that an overflow repair moved a point into
C1_Witness ==
    /\ pc = "regrouped"
    /\ \E g \in 1..Len(out_groups) : BuiltByRepair(out_groups[g])
    /\ \E g \in 1..Len(out_regrouped) : BuiltByRepair(out_regrouped[g])

\* C2: in every returned group of two or more points, any two y values differ
\* by less than the tolerance
C2_SpanBelowTolerance ==
    Returned =>
        \A g \in 1..Len(out_groups) :
            Len(out_groups[g]) >= 2 =>
                \A i, j \in 1..Len(out_groups[g]) :
                    out_groups[g][i][2] - out_groups[g][j][2] < in_tolerance

\* a repair closed a group of two or more points and built the next group from
\* the incoming point and a point moved out of the closed group
C2_Witness ==
    /\ pc = "grouped"
    /\ \E g \in 2..Len(out_groups) :
          /\ BuiltByRepair(out_groups[g])
          /\ Len(out_groups[g - 1]) >= 2

\* C3: no returned group is empty and every point of a group is at least as
\* high as every point of the group after it
C3_GroupsTopToBottom ==
    Returned =>
        /\ \A g \in 1..Len(out_groups) : out_groups[g] # <<>>
        /\ \A g \in 1..(Len(out_groups) - 1) :
              \A i \in 1..Len(out_groups[g]), j \in 1..Len(out_groups[g + 1]) :
                  out_groups[g][i][2] >= out_groups[g + 1][j][2]

\* a repair moved a point into the new group and left a point behind
C3_Witness ==
    /\ pc = "grouped"
    /\ \E g \in 1..(Len(out_groups) - 1) :
          /\ out_groups[g] # <<>>
          /\ BuiltByRepair(out_groups[g + 1])

\* C4: a call with a negative tolerance ends in InvalidArgument and returns no
\* grouping
C4_InvalidArgument ==
    (Returned /\ in_tolerance < 0) =>
        (raised = "InvalidArgument" /\ out_groups = <<>>)

\* C6 as stated: with tolerance 0 two input points are in the same group
\* exactly when their y values are equal
C6_ZeroToleranceGroupsEqualY ==
    (Returned /\ in_tolerance = 0) =>
        \A i, j \in 1..Len(in_points) :
            (\E g \in 1..Len(out_groups) :
                \E a, b \in 1..Len(out_groups[g]) :
                    out_groups[g][a] = in_points[i] /\ out_groups[g][b] = in_points[j])
            <=> in_points[i][2] = in_points[j][2]

\* C6 as amended: with tolerance 0 every returned group holds one point, so
\* there is one group per point
C6_ZeroToleranceSingletons ==
    (Returned /\ in_tolerance = 0) =>
        /\ Len(out_groups) = Len(in_points)
        /\ \A g \in 1..Len(out_groups) : Len(out_groups[g]) = 1

\* a call with tolerance 0 on three points of the same y
C6_Witness ==
    /\ pc = "grouped"
    /\ in_tolerance = 0
    /\ Len(in_points) >= 3
    /\ \A i, j \in 1..Len(in_points) : in_points[i][2] = in_points[j][2]

\* C7: in the displayed grouping x never decreases within a group, and each
\* displayed group holds the points of the group find_optimal_grouping returned
\* at its place
C7_GroupsSortedByX ==
    /\ \A g \in 1..Len(points_list) :
          \A i, j \in 1..Len(points_list[g]) :
              i < j => points_list[g][i][1] <= points_list[g][j][1]
    /\ err = "none" =>
          LET returned == find_optimal_grouping(point_data(points), tolerance * Scale)
          IN /\ Len(points_list) = Len(returned)
             /\ \A g \in 1..Len(returned) : BagOf(points_list[g]) = BagOf(returned[g])

\* the callback displayed a group that find_optimal_grouping had returned with
\* a larger x before a smaller one
C7_Witness ==
    /\ err = "none"
    /\ LET returned == find_optimal_grouping(point_data(points), tolerance * Scale)
       IN \E g \in 1..Len(returned) :
             \E i \in 1..(Len(returned[g]) - 1) : returned[g][i][1] > returned[g][i + 1][1]

\* C8: grouping the displayed order again gives the same groups, holding the
\* same points, in the same order of groups
C8_RegroupingIdempotent ==
    pc = "regrouped" =>
        /\ Len(out_regrouped) = Len(out_sorted)
        /\ \A g \in 1..Len(out_sorted) : BagOf(out_regrouped[g]) = BagOf(out_sorted[g])

\* the second call walked the points in another order than the first and a
\* repair moved a point
C8_Witness ==
    /\ pc = "regrouped"
    /\ sorted_by_neg_y(flatten(out_sorted)) # sorted_by_neg_y(in_points)
    /\ \E g \in 1..Len(out_groups) : BuiltByRepair(out_groups[g])

\* C9: 'Remove Point' on an empty store leaves points, used_names and
\* removed_names as they are and ends without error
C9_RemoveOnEmptyIsNoOp ==
    [][(points.x = <<>> /\ RemovePoint) =>
          (UNCHANGED <<points, used_names, removed_names>> /\ err' = "none")]_vars

\* 'Remove Point' was clicked on a store emptied by earlier removes
C9_Witness ==
    /\ triggered_id = "remove-point-button"
    /\ store_was_empty
    /\ points.x = <<>>
    /\ removed_names # <<>>

\* C5: the labels of the stored points are pairwise distinct
C5_LabelsDistinct ==
    \A i, j \in 1..Len(Labels) : i # j => Labels[i] # Labels[j]

\* C10: the label of every stored point is in used_names and no 'Remove Point'
\* ends in an error
C10_LabelsInUsedNames ==
    /\ \A i \in 1..Len(Labels) : Labels[i] \in used_names
    /\ err = "none"

====
